---------------------------- MODULE Spec2Model ----------------------------
(***************************************************************************)
(* Model of ci-cd.js: the /add-repo registrar, the /webhook/github         *)
(* receiver and the in-memory map webhookSecrets they share.               *)
(*                                                                         *)
(* A JavaScript string is a sequence of tokens; "/" is a token of its own, *)
(* so that template literals, split('/') and replace('refs/heads/', '')    *)
(* are computed on the value.  undefined is the one-token sequence         *)
(* Undefined, which no string of the model equals.                         *)
(*                                                                         *)
(* Node runs one handler at a time and switches handlers only at an await: *)
(* each action below is the code between two awaits of one request.        *)
(*                                                                         *)
(* last is an observation of the handler step just taken (what it          *)
(* received, the map it saw, what it answered and which remote calls it    *)
(* issued).  It is no state of the program: Forget drops it, and a step is *)
(* taken only once the observation of the step before it is dropped.       *)
(***************************************************************************)
EXTENDS Naturals, Sequences, FiniteSets, Bags

VARIABLES
    webhookSecrets,  \* the Map of line 22: repository key -> secret
    githubHooks,     \* webhooks that exist on GitHub: records [key, secret]
    addReqs,         \* /add-repo requests suspended at an await
    hookReqs,        \* /webhook/github requests suspended at the await of
                     \* line 174: a bag of the build calls they await
    nextSecret,      \* how many secrets crypto.randomBytes has produced, plus one
    last             \* what the handler step just taken received, saw and did

vars == <<webhookSecrets, githubHooks, addReqs, hookReqs, nextSecret, last>>

----------------------------------------------------------------------------
(* Bounds of the model *)

\* /add-repo requests that pass validation (each draws one secret)
MaxSecrets == 2
\* verified deliveries awaiting the build system at one time
MaxHookReqs == 2

----------------------------------------------------------------------------
(* JavaScript values *)

Undefined == <<"undefined">>
EmptyString == << >>

\* !x of line 32 and line 149, for the values the model draws
Falsy(x) == x = Undefined \/ x = EmptyString

Min(S) == CHOOSE i \in S : \A j \in S : i <= j

\* String.prototype.split(sep): the pieces between the occurrences of sep
RECURSIVE split(_, _)
split(s, sep) ==
    LET hits == {i \in 1..Len(s) : s[i] = sep}
    IN  IF hits = {}
        THEN <<s>>
        ELSE <<SubSeq(s, 1, Min(hits) - 1)>>
                 \o split(SubSeq(s, Min(hits) + 1, Len(s)), sep)

\* const [a, b] = parts: a missing element is undefined
Element(parts, i) == IF i <= Len(parts) THEN parts[i] ELSE Undefined

\* String.prototype.replace(pattern, replacement) with a string pattern:
\* only the first occurrence is replaced
replace(s, pattern, replacement) ==
    LET hits == {i \in 1..(Len(s) + 1) :
                    /\ i + Len(pattern) - 1 <= Len(s)
                    /\ SubSeq(s, i, i + Len(pattern) - 1) = pattern}
    IN  IF hits = {}
        THEN s
        ELSE SubSeq(s, 1, Min(hits) - 1) \o replacement
                 \o SubSeq(s, Min(hits) + Len(pattern), Len(s))

RefsHeads == <<"refs", "/", "heads", "/">>

\* A faulty variant: the ref is passed on as it is
BranchOfRefUnstripped(ref) == ref

\* payload.ref.replace('refs/heads/', '') of line 141
BranchOfRef(ref) == replace(ref, RefsHeads, EmptyString)

\* `${repo_owner}/${repo_name}` of line 43 (and of line 99)
webhookKey(repo_owner, repo_name) == repo_owner \o <<"/">> \o repo_name

\* `odoo-deploy-${user_id}` of lines 66 and 169
jenkinsJobName(user_id) == <<"odoo-deploy-">> \o user_id

----------------------------------------------------------------------------
(* The values requests are drawn from *)

\* Repositories that get registered, and one more that never is
Owners == {<<"acme">>}
Names == {<<"widget">>}
Branches == {<<"main">>}
UserIds == {<<"u123">>}
OtherOwners == {<<"bob">>}
\* The commit id a delivery carries, and the one its sender may have signed
Shas == {<<"c1">>}
SignedShas == {<<"c0">>, <<"c1">>}
Refs == {<<"refs", "/", "heads", "/", "main">>}
\* The values of crypto.randomBytes(32).toString('hex') of line 42
HexSecret(n) == <<"hex", n>>
Secrets == {HexSecret(n) : n \in 1..MaxSecrets}

\* req.body of /add-repo: each field a string, the empty string, or absent
AddBodies ==
    [repo_owner : Owners \cup {Undefined, EmptyString},
     repo_name  : Names \cup {Undefined},
     branch     : Branches \cup {Undefined},
     user_id    : UserIds \cup {Undefined}]

RepoKeys == {webhookKey(o, n) : o \in Owners \cup OtherOwners, n \in Names}

----------------------------------------------------------------------------
(* Request bodies, express.json() and JSON.stringify *)

\* The JSON value of a delivery's body.  repository is payload.repository
\* given by its full_name, Undefined when the body has no repository object;
\* ref is Undefined when the body has no ref.
Payloads ==
    {p \in [repository : RepoKeys \cup {Undefined},
            ref        : Refs \cup {Undefined},
            after      : Shas] :
        p.repository # Undefined \/ p.ref # Undefined}

\* The bytes of a body as sent: a JSON value in one of its serializations.
\* "compact" is the text JSON.stringify writes; "spaced" stands for any other
\* text of the same value (whitespace, escapes, number spelling).
Formats == {"compact", "spaced"}
RawBodies == [value : Payloads, format : Formats]

\* express.json() of line 8: req.body is the parsed value, the bytes are dropped
JsonParse(raw) == raw.value

\* JSON.stringify(value) of line 155
JsonStringify(value) == [value |-> value, format |-> "compact"]

----------------------------------------------------------------------------
(* HMAC-SHA256 *)

\* crypto.createHmac('sha256', key).update(message).digest('hex'): a MAC is
\* determined by the key and the message and two MACs are equal only if both
\* are (collisions are not modelled)
HmacSha256Hex(key, message) == <<key, message>>

\* 'sha256=' + hmac...digest('hex') of line 155, as a header value
Sha256Header(key, message) == <<"sha256=">> \o HmacSha256Hex(key, message)

\* Bodies a sender may have computed its signature over, for a delivery of
\* raw: the bytes it sends, their re-serialization, and the same bytes with
\* another commit id (a signature kept while the body was altered).
SignedBodies(raw) ==
    {raw, JsonStringify(JsonParse(raw))}
        \cup {[raw EXCEPT !.value.after = sha] : sha \in SignedShas}

Signatures(raw) ==
    {Undefined} \cup {Sha256Header(s, m) : s \in Secrets, m \in SignedBodies(raw)}

Events == {<<"push">>, <<"ping">>, Undefined}

\* A request to /webhook/github: the two headers of lines 129-130 and the body
Deliveries ==
    UNION {{[event |-> e, signature |-> sig, raw |-> raw] :
               e \in Events, sig \in Signatures(raw)} : raw \in RawBodies}

----------------------------------------------------------------------------
(* Remote calls and their outcomes *)

\* How an awaited call to GitHub or Jenkins ends: it resolves, or it rejects
\* with an error that carries the remote's response (error.response, a
\* non-2xx status) or carries none (the network failed)
Resolved == [ok |-> TRUE, response |-> FALSE, status |-> 200]
ErrorStatuses == {403, 404, 500}
Rejections ==
    {[ok |-> FALSE, response |-> TRUE, status |-> st] : st \in ErrorStatuses}
        \cup {[ok |-> FALSE, response |-> FALSE, status |-> 0]}
Outcomes == {Resolved} \cup Rejections

\* A faulty variant: the secret is left out of the webhook's config
CreateWebhookCallWithoutSecret(body, secret) ==
    [api    |-> "github.createWebhook",
     owner  |-> body.repo_owner,
     repo   |-> body.repo_name,
     secret |-> Undefined,
     events |-> <<"push">>,
     active |-> TRUE]

\* octokit.repos.createWebhook of lines 47-58
CreateWebhookCall(body, secret) ==
    [api    |-> "github.createWebhook",
     owner  |-> body.repo_owner,
     repo   |-> body.repo_name,
     secret |-> secret,
     events |-> <<"push">>,
     active |-> TRUE]

\* axios.get(`${JENKINS_URL}/job/${jobName}/api/json`) of line 220
JobCheckCall(jobName) == [api |-> "jenkins.getJob", job |-> jobName]

\* axios.post(`${JENKINS_URL}/job/${jenkinsJobName}/buildWithParameters`)
\* of lines 73-87 and 174-190
BuildCall(jobName, params) ==
    [api |-> "jenkins.buildWithParameters", job |-> jobName, params |-> params]

\* params of lines 78-83
AddRepoParams(body) ==
    [REPO_OWNER |-> body.repo_owner,
     REPO_NAME  |-> body.repo_name,
     BRANCH     |-> body.branch,
     USER_ID    |-> body.user_id]

\* lines 139-142 and 165-169, and params of lines 182-188
WebhookParams(payload) ==
    LET parts      == split(payload.repository, "/")
        repo_owner == Element(parts, 1)
        repo_name  == Element(parts, 2)
        user_id    == repo_owner
    IN  [REPO_OWNER |-> repo_owner,
         REPO_NAME  |-> repo_name,
         BRANCH     |-> BranchOfRef(payload.ref),
         USER_ID    |-> user_id,
         COMMIT_SHA |-> payload.after]

\* A faulty variant: every error of the job check is swallowed
ensureJenkinsJobExistsSwallowingAll(outcome) == TRUE

\* A faulty variant: a missing job is rethrown like any other error
ensureJenkinsJobExistsStrict(outcome) == outcome.ok

\* ensureJenkinsJobExists of lines 217-236: TRUE when it returns, FALSE when
\* it rethrows the error of its axios.get
ensureJenkinsJobExists(outcome) ==
    \/ outcome.ok
    \/ outcome.response /\ outcome.status = 404

\* A faulty variant: the remote's status is not passed on
AddRepoCatchStatusAlwaysInternal(error) == 500

\* The status the catch block of lines 104-119 answers with
AddRepoCatchStatus(error) ==
    IF error.response THEN error.status ELSE 500

----------------------------------------------------------------------------
(* State *)

NoRequest == [none |-> TRUE]

\* The record every handler step leaves in last
Step(op, from, request, secret, outcome, status, reply, issued) ==
    [op      |-> op,        \* "add-repo", "webhook" or "health"
     from    |-> from,      \* "request", or the awaited call the step resumed from
     request |-> request,   \* the /add-repo body or the delivery received, or
                            \* the build call a delivery's handler resumed from
     secret  |-> secret,    \* webhookSecret of line 42 or of line 147
     outcome |-> outcome,   \* how the awaited call ended
     before  |-> webhookSecrets,
     status  |-> status,    \* the HTTP status answered, 0 when none yet
     reply   |-> reply,     \* the body answered
     issued  |-> issued]    \* the remote calls the step issued

NoStep ==
    [op |-> "none", from |-> "none", request |-> NoRequest,
     secret |-> Undefined, outcome |-> Resolved, before |-> << >>,
     status |-> 0, reply |-> "", issued |-> << >>]

\* A faulty variant: an entry that exists is kept
MapSetIfAbsent(map, key, value) ==
    [k \in DOMAIN map \cup {key} |-> IF k \in DOMAIN map THEN map[k] ELSE value]

\* A faulty variant: setting a key that has an entry deletes the entry
MapSetEvictingOnOverwrite(map, key, value) ==
    IF key \in DOMAIN map
    THEN [k \in DOMAIN map \ {key} |-> map[k]]
    ELSE [k \in DOMAIN map \cup {key} |-> IF k = key THEN value ELSE map[k]]

\* A faulty variant: the secret of the request that arrived later is kept
MapSetKeepingLaterArrival(map, key, value) ==
    IF key \in DOMAIN map /\ map[key][2] > value[2]
    THEN map
    ELSE [k \in DOMAIN map \cup {key} |-> IF k = key THEN value ELSE map[k]]

\* Map.prototype.set of line 63
MapSet(map, key, value) ==
    [k \in DOMAIN map \cup {key} |-> IF k = key THEN value ELSE map[k]]

\* A faulty variant: the key is not looked at
MapGetAnyKey(map, key) ==
    IF DOMAIN map = {} THEN Undefined ELSE map[CHOOSE k \in DOMAIN map : TRUE]

\* A faulty variant: the secret of a registration still waiting to resume
\* from createWebhook is found, as if line 63 ran before the await of line 47
MapGetAsIfStoredBeforeAwait(map, key) ==
    LET waiting == {r \in addReqs :
                       /\ r.pc = "webhookCreated"
                       /\ r.body.repo_owner \o <<"/">> \o r.body.repo_name = key}
    IN  IF waiting # {}
        THEN (CHOOSE r \in waiting : TRUE).webhookSecret
        ELSE IF key \in DOMAIN map THEN map[key] ELSE Undefined

\* Map.prototype.get of line 147: undefined when the key has no entry
MapGet(map, key) == IF key \in DOMAIN map THEN map[key] ELSE Undefined

Init ==
    /\ webhookSecrets = << >>
    /\ githubHooks = {}
    /\ addReqs = {}
    /\ hookReqs = EmptyBag
    /\ nextSecret = 1
    /\ last = NoStep

----------------------------------------------------------------------------
(* POST /add-repo, lines 28-120 *)

\* A faulty variant: user_id is not validated
MissingFieldsButUserId(body) ==
    \/ Falsy(body.repo_owner)
    \/ Falsy(body.repo_name)
    \/ Falsy(body.branch)

\* The validation of line 32
MissingFields(body) ==
    \/ Falsy(body.repo_owner)
    \/ Falsy(body.repo_name)
    \/ Falsy(body.branch)
    \/ Falsy(body.user_id)

\* crypto.randomBytes(32).toString('hex') of line 42: a value no earlier call
\* returned
RandomSecret == HexSecret(nextSecret)

\* A faulty variant: name and owner are swapped
StoreKeySwapped(body) == webhookKey(body.repo_name, body.repo_owner)

\* The key line 63 stores the secret under
StoreKey(body) == webhookKey(body.repo_owner, body.repo_name)

\* The success response, lines 92-102
SuccessReply(body) ==
    [success     |-> TRUE,
     jenkins_job |-> jenkinsJobName(body.user_id),
     repository  |-> webhookKey(body.repo_owner, body.repo_name),
     branch      |-> body.branch]

\* The error responses of lines 33-35 and 104-119
ErrorReply(message) == [success |-> FALSE, error |-> message]

\* Lines 29-58: validate, generate the secret, send createWebhook and await it
AddRepo(body) ==
    /\ last = NoStep
    /\ IF MissingFields(body)
       THEN /\ last' = Step("add-repo", "request", body, Undefined, Resolved,
                            400, ErrorReply("Missing required fields"), << >>)
            /\ UNCHANGED <<addReqs, nextSecret>>
       ELSE /\ nextSecret <= MaxSecrets
            /\ addReqs' = addReqs \cup
                   {[pc |-> "createWebhook", body |-> body,
                     webhookSecret |-> RandomSecret]}
            /\ nextSecret' = nextSecret + 1
            /\ last' = Step("add-repo", "request", body, RandomSecret, Resolved,
                            0, "", <<CreateWebhookCall(body, RandomSecret)>>)
    /\ UNCHANGED <<webhookSecrets, githubHooks, hookReqs>>

\* GitHub serves the createWebhook request and creates the webhook; the
\* registrar is still suspended at the await of line 47
GitHubCreateWebhook(r) ==
    /\ last = NoStep
    /\ r \in addReqs
    /\ r.pc = "createWebhook"
    /\ LET call == CreateWebhookCall(r.body, r.webhookSecret)
       IN  githubHooks' = githubHooks \cup
               {[owner |-> call.owner, repo |-> call.repo, secret |-> call.secret]}
    /\ addReqs' = (addReqs \ {r}) \cup {[r EXCEPT !.pc = "webhookCreated"]}
    /\ UNCHANGED <<webhookSecrets, hookReqs, nextSecret, last>>

\* A faulty variant: the catch block takes back the secret it stored
StoreAfterCatchRolledBack(r) ==
    [k \in {j \in DOMAIN webhookSecrets :
                ~(j = StoreKey(r.body) /\ webhookSecrets[j] = r.webhookSecret)}
        |-> webhookSecrets[k]]

\* The map when the catch block of lines 104-119 has run: the block only
\* logs and answers, the map is as it was
StoreAfterCatch(r) == webhookSecrets

\* The answer of the catch block, lines 104-119
AddRepoCatch(r, from, error) ==
    /\ addReqs' = addReqs \ {r}
    /\ webhookSecrets' = StoreAfterCatch(r)
    /\ last' = Step("add-repo", from, r.body, r.webhookSecret, error,
                    AddRepoCatchStatus(error),
                    ErrorReply(IF error.response THEN "error.message"
                                                 ELSE "Internal server error"),
                    << >>)

\* createWebhook rejected: line 47 throws into the catch block
AddRepoWebhookFailed(r, error) ==
    /\ last = NoStep
    /\ r \in addReqs
    /\ r.pc = "createWebhook"
    /\ AddRepoCatch(r, "createWebhook", error)
    /\ UNCHANGED <<githubHooks, hookReqs, nextSecret>>

\* Lines 60-67 and 220: createWebhook resolved; store the secret, then send
\* the job check of ensureJenkinsJobExists and await it
AddRepoStoreSecret(r) ==
    /\ last = NoStep
    /\ r \in addReqs
    /\ r.pc = "webhookCreated"
    /\ webhookSecrets' = MapSet(webhookSecrets, StoreKey(r.body), r.webhookSecret)
    /\ addReqs' = (addReqs \ {r}) \cup {[r EXCEPT !.pc = "jobCheck"]}
    /\ last' = Step("add-repo", "createWebhook", r.body, r.webhookSecret,
                    Resolved, 0, "",
                    <<JobCheckCall(jenkinsJobName(r.body.user_id))>>)
    /\ UNCHANGED <<githubHooks, hookReqs, nextSecret>>

\* Lines 67-87: ensureJenkinsJobExists ended; send the initial build and
\* await it, or land in the catch block
AddRepoAfterJobCheck(r, outcome) ==
    /\ last = NoStep
    /\ r \in addReqs
    /\ r.pc = "jobCheck"
    /\ IF ensureJenkinsJobExists(outcome)
       THEN /\ addReqs' = (addReqs \ {r}) \cup {[r EXCEPT !.pc = "build"]}
            /\ webhookSecrets' = webhookSecrets
            /\ last' = Step("add-repo", "jobCheck", r.body, r.webhookSecret,
                            outcome, 0, "",
                            <<BuildCall(jenkinsJobName(r.body.user_id),
                                        AddRepoParams(r.body))>>)
       ELSE AddRepoCatch(r, "jobCheck", outcome)
    /\ UNCHANGED <<githubHooks, hookReqs, nextSecret>>

\* Lines 89-102: the initial build was accepted, answer success; or the catch
AddRepoAfterBuild(r, outcome) ==
    /\ last = NoStep
    /\ r \in addReqs
    /\ r.pc = "build"
    /\ IF outcome.ok
       THEN /\ addReqs' = addReqs \ {r}
            /\ webhookSecrets' = webhookSecrets
            /\ last' = Step("add-repo", "build", r.body, r.webhookSecret,
                            outcome, 200, SuccessReply(r.body), << >>)
       ELSE AddRepoCatch(r, "build", outcome)
    /\ UNCHANGED <<githubHooks, hookReqs, nextSecret>>

----------------------------------------------------------------------------
(* POST /webhook/github, lines 126-200 *)

\* A faulty variant: only a ping is ignored
IgnoredEventOnlyPing(event) == event = <<"ping">>

\* The test of line 135
IgnoredEvent(event) == event # <<"push">>

\* Lines 140-141 throw a TypeError when the body has no repository object or
\* no ref
PayloadThrows(payload) ==
    payload.repository = Undefined \/ payload.ref = Undefined

\* A faulty variant: the digest does not cover the commit id
DigestWithoutCommit(webhookSecret, body) ==
    Sha256Header(webhookSecret, JsonStringify([body EXCEPT !.after = <<"c0">>]))

\* Lines 154-155: the digest the receiver compares the signature header with
Digest(webhookSecret, body) ==
    Sha256Header(webhookSecret, JsonStringify(body))

\* A faulty variant: a delivery without the header is let through
SignatureMismatchUnlessAbsent(signature, digest) ==
    signature # Undefined /\ signature # digest

\* The comparison of line 157
SignatureMismatch(signature, digest) == signature # digest

\* A faulty variant: the outcome of the build trigger is not looked at
BuildAnswerStatusAlwaysOk(outcome) == 200

\* The status of lines 194 and 198
BuildAnswerStatus(outcome) == IF outcome.ok THEN 200 ELSE 500

\* A faulty variant: a trigger equal to one still awaited is not sent again
DispatchDeduplicated(reqs, call) ==
    IF BagIn([call |-> call], reqs)
    THEN reqs
    ELSE reqs (+) SetToBag({[call |-> call]})

\* Lines 174-190: the handler sends its build trigger and awaits it, whatever
\* triggers other deliveries are still awaiting
Dispatch(reqs, call) == reqs (+) SetToBag({[call |-> call]})

\* Lines 127-190: everything up to the await of the build trigger
Webhook(d) ==
    LET payload       == JsonParse(d.raw)
        repoFullName  == payload.repository
        webhookSecret == MapGet(webhookSecrets, repoFullName)
        answer(secret, status, reply) ==
            /\ last' = Step("webhook", "request", d, secret, Resolved, status,
                            reply, << >>)
            /\ hookReqs' = hookReqs
    IN  /\ last = NoStep
        /\ IF IgnoredEvent(d.event)
           THEN answer(Undefined, 200, "Event ignored")
           ELSE IF PayloadThrows(payload)
           THEN answer(Undefined, 500, "Internal error")
           ELSE IF Falsy(webhookSecret)
           THEN answer(webhookSecret, 404, "Repository not registered")
           ELSE IF SignatureMismatch(d.signature, Digest(webhookSecret, payload))
           THEN answer(webhookSecret, 401, "Invalid signature")
           ELSE LET params == WebhookParams(payload)
                    call   == BuildCall(jenkinsJobName(params.USER_ID), params)
                IN  /\ BagCardinality(hookReqs) < MaxHookReqs
                    /\ hookReqs' = Dispatch(hookReqs, call)
                    /\ last' = Step("webhook", "request", d, webhookSecret,
                                    Resolved, 0, "", <<call>>)
        /\ UNCHANGED <<webhookSecrets, githubHooks, addReqs, nextSecret>>

\* Lines 192-199: the build trigger was accepted, answer 200; or it failed
\* and the catch block answers 500
WebhookAfterBuild(r, outcome) ==
    /\ last = NoStep
    /\ BagIn(r, hookReqs)
    /\ hookReqs' = hookReqs (-) SetToBag({r})
    /\ last' = Step("webhook", "build", r.call, Undefined, outcome,
                    BuildAnswerStatus(outcome),
                    IF outcome.ok THEN "Webhook processed" ELSE "Internal error",
                    << >>)
    /\ UNCHANGED <<webhookSecrets, githubHooks, addReqs, nextSecret>>

----------------------------------------------------------------------------
(* GET /health, lines 205-211 *)

\* A faulty variant: the list is always empty
MapKeysEmpty(map) == {}

\* webhookSecrets.keys() of line 209: the keys that have an entry
MapKeys(map) == DOMAIN map

\* The response of lines 206-210 (the timestamp is left out)
HealthReply == [status |-> "ok", registered_repos |-> MapKeys(webhookSecrets)]

\* Lines 205-211: the handler is synchronous and answers at once
Health ==
    /\ last = NoStep
    /\ last' = Step("health", "request", NoRequest, Undefined, Resolved, 200,
                    HealthReply, << >>)
    /\ UNCHANGED <<webhookSecrets, githubHooks, addReqs, hookReqs, nextSecret>>

----------------------------------------------------------------------------

\* The observation of the step just taken is dropped
Forget ==
    /\ last # NoStep
    /\ last' = NoStep
    /\ UNCHANGED <<webhookSecrets, githubHooks, addReqs, hookReqs, nextSecret>>

Next ==
    \/ \E body \in AddBodies : AddRepo(body)
    \/ \E r \in addReqs : GitHubCreateWebhook(r)
    \/ \E r \in addReqs, error \in Rejections : AddRepoWebhookFailed(r, error)
    \/ \E r \in addReqs : AddRepoStoreSecret(r)
    \/ \E r \in addReqs, outcome \in Outcomes : AddRepoAfterJobCheck(r, outcome)
    \/ \E r \in addReqs, outcome \in Outcomes : AddRepoAfterBuild(r, outcome)
    \/ \E d \in Deliveries : Webhook(d)
    \/ \E r \in BagToSet(hookReqs), outcome \in Outcomes : WebhookAfterBuild(r, outcome)
    \/ Health
    \/ Forget

Spec == Init /\ [][Next]_vars

\* Every remote call eventually returns or fails, and Node's event loop runs
\* the continuation of every settled await: a step that is possible again
\* and again is eventually taken
RemoteCallsReturn ==
    /\ SF_vars(\E r \in addReqs :
                  \/ GitHubCreateWebhook(r)
                  \/ \E error \in Rejections : AddRepoWebhookFailed(r, error))
    /\ SF_vars(\E r \in addReqs : AddRepoStoreSecret(r))
    /\ SF_vars(\E r \in addReqs, outcome \in Outcomes : AddRepoAfterJobCheck(r, outcome))
    /\ SF_vars(\E r \in addReqs, outcome \in Outcomes : AddRepoAfterBuild(r, outcome))
    /\ SF_vars(\E r \in BagToSet(hookReqs), outcome \in Outcomes :
                  WebhookAfterBuild(r, outcome))
    /\ WF_vars(Forget)

FairSpec == Spec /\ RemoteCallsReturn

----------------------------------------------------------------------------
(* Properties *)

Range(seq) == {seq[i] : i \in 1..Len(seq)}

\* The step just taken received a request to /webhook/github
Received == last.op = "webhook" /\ last.from = "request"

\* ... whose x-github-event header is push
PushReceived == Received /\ last.request.event = <<"push">>

\* ... and whose body is a push event: it carries the repository and the ref
PushEvent ==
    /\ PushReceived
    /\ last.request.raw.value.repository # Undefined
    /\ last.request.raw.value.ref # Undefined

\* The repository full name of the delivery just received
ReceivedKey == last.request.raw.value.repository

\* The map had an entry for the delivery's repository when it was handled
Registered == ReceivedKey \in DOMAIN last.before

\* A build trigger of the receiver: the POST that carries COMMIT_SHA
PushBuild(c) ==
    /\ c.api = "jenkins.buildWithParameters"
    /\ "COMMIT_SHA" \in DOMAIN c.params

\* "sha256=" + hex(HMAC-SHA256(secret, body)) for the body the handler holds,
\* req.body, in its JSON.stringify text
BodySignature(secret, d) ==
    <<"sha256=", secret, [value |-> d.raw.value, format |-> "compact"]>>

\* "sha256=" + hex(HMAC-SHA256(secret, raw)) for the bytes of the body as
\* they were received
RawSignature(secret, d) == <<"sha256=", secret, d.raw>>

\* The step just taken left the map as it was
StoreUnchanged == webhookSecrets = last.before

\* C1: a build trigger carrying COMMIT_SHA is issued only by the receipt of a
\* push delivery whose repository had an entry in the map when it was handled
\* and whose signature header equals "sha256=" + hex(HMAC-SHA256(stored
\* secret, body)), body being req.body as the handler serializes it.
C1_DispatchOnlyIfVerified ==
    \A c \in Range(last.issued) :
        PushBuild(c) =>
            /\ PushReceived
            /\ Registered
            /\ last.request.signature =
                   BodySignature(last.before[ReceivedKey], last.request)

\* C1 witness: a delivery was received while a registration was still
\* suspended, and its build trigger was issued
C1_Witness ==
    /\ PushReceived
    /\ \E c \in Range(last.issued) : PushBuild(c)
    /\ addReqs # {}

\* C2: a push event whose repository has no entry in the map is answered 404
\* whatever its signature header; no build trigger is issued and the map is
\* unchanged.
C2_UnregisteredIs404 ==
    (PushEvent /\ ~Registered) =>
        /\ last.status = 404
        /\ last.issued = << >>
        /\ StoreUnchanged

\* C2 witness: the 404 answers a delivery for an unregistered repository whose
\* signature is valid under the stored secret of another repository
C2_Witness ==
    /\ PushEvent
    /\ ~Registered
    /\ \E k \in DOMAIN last.before :
           last.request.signature = BodySignature(last.before[k], last.request)
    /\ last.status = 404

\* C3: a delivery whose event header is not "push" (or is absent) is answered
\* 200 with no build trigger and the map unchanged, whatever its body, its
\* signature and the map hold.
C3_NonPushIgnored ==
    (Received /\ last.request.event # <<"push">>) =>
        /\ last.status = 200
        /\ last.reply = "Event ignored"
        /\ last.issued = << >>
        /\ StoreUnchanged

\* C3 witness: a delivery without the event header, for a registered
\* repository and without a signature, was answered 200
C3_Witness ==
    /\ Received
    /\ last.request.event = Undefined
    /\ last.request.raw.value.repository \in DOMAIN last.before
    /\ last.request.signature = Undefined
    /\ last.status = 200

\* C4: a push event on a registered repository whose signature header differs
\* from the digest recomputed from the stored secret and the body is answered
\* 401; no build trigger is issued and the map is unchanged.
C4_MismatchIs401 ==
    (/\ PushEvent
     /\ Registered
     /\ last.request.signature #
            BodySignature(last.before[ReceivedKey], last.request)) =>
        /\ last.status = 401
        /\ last.issued = << >>
        /\ StoreUnchanged

\* C4 witness: the body carries another commit id than the one the signature,
\* made with the stored secret, was computed over; the answer is 401
C4_Witness ==
    /\ PushEvent
    /\ Registered
    /\ last.request.signature =
           <<"sha256=", last.before[ReceivedKey],
             [value  |-> [last.request.raw.value EXCEPT !.after = <<"c0">>],
              format |-> "compact"]>>
    /\ last.request.raw.value.after # <<"c0">>
    /\ last.status = 401

\* C5: the only signature accepted for a delivery is "sha256=" +
\* hex(HMAC-SHA256(stored secret, raw body bytes)): a delivery whose build
\* trigger is issued carries the signature of the bytes it was received with.
C5_AcceptedOnlyOverRawBytes ==
    \A c \in Range(last.issued) :
        PushBuild(c) =>
            last.request.signature =
                RawSignature(last.before[ReceivedKey], last.request)

\* The step just taken answered an /add-repo request with success
SuccessAnswered == last.op = "add-repo" /\ last.status = 200

\* "{repo_owner}/{repo_name}" of the /add-repo request of the step just taken
RequestedKey == last.request.repo_owner \o <<"/">> \o last.request.repo_name

\* C6: when /add-repo answers with success the map holds an entry under
\* exactly "{repo_owner}/{repo_name}", and an entry of the map stays in it in
\* every later state.
C6_SuccessStoresKey ==
    /\ [](SuccessAnswered => RequestedKey \in DOMAIN webhookSecrets)
    /\ [][\A k \in DOMAIN webhookSecrets : k \in DOMAIN webhookSecrets']_vars

\* C6 witness: success was answered for a request with all four fields, and
\* the map holds the key
C6_Witness ==
    /\ SuccessAnswered
    /\ ~MissingFields(last.request)
    /\ RequestedKey \in DOMAIN webhookSecrets

\* The secret s went through line 63 for the repository key (its webhook
\* exists on GitHub and its registration is past the await of createWebhook)
\* and is no longer the one the map holds: a later registration replaced it
Overwritten(s, key) ==
    /\ \E h \in githubHooks :
           h.secret = s /\ h.owner \o <<"/">> \o h.repo = key
    /\ \A r \in addReqs : r.webhookSecret = s => r.pc # "webhookCreated"
    /\ key \in DOMAIN webhookSecrets
    /\ webhookSecrets[key] # s

\* The delivery just received carries a signature made with the secret s
SignedWith(s) ==
    /\ last.request.signature # Undefined
    /\ last.request.signature[2] = s

\* C7: line 63 overwrites whatever the map held for the repository with the
\* secret of the registration that runs it; from then on a push signed with a
\* secret it replaced is answered 401 and a push is accepted only if signed
\* with the secret stored last.
C7_ReRegistrationOverwrites ==
    /\ [][\A r \in addReqs :
            AddRepoStoreSecret(r) =>
                LET key == r.body.repo_owner \o <<"/">> \o r.body.repo_name
                IN  /\ key \in DOMAIN webhookSecrets'
                    /\ webhookSecrets'[key] = r.webhookSecret]_vars
    /\ []((PushEvent /\ Registered) =>
            /\ \A s \in Secrets :
                   (Overwritten(s, ReceivedKey) /\ SignedWith(s)) =>
                       last.status = 401 /\ last.issued = << >>
            /\ (\E c \in Range(last.issued) : PushBuild(c)) =>
                   SignedWith(webhookSecrets[ReceivedKey]))

\* C7 witness: a push that would verify under the first registration's
\* secret arrives after the second registration stored its own, and is
\* answered 401
C7_Witness ==
    /\ PushEvent
    /\ Registered
    /\ \E s \in Secrets :
           /\ Overwritten(s, ReceivedKey)
           /\ last.request.signature = BodySignature(s, last.request)
    /\ last.status = 401

\* C8: a push for a registered "owner/name" on refs/heads/<b> with head
\* commit <sha>, signed with the stored secret, issues exactly one build
\* trigger, on the job named from the owner, with REPO_OWNER=owner,
\* REPO_NAME=name, BRANCH=<b>, USER_ID=owner and COMMIT_SHA=<sha>; and the
\* delivery is answered 200 once the build system accepts the trigger.
C8_PushTriggersBuild ==
    /\ \A o \in Owners \cup OtherOwners, n \in Names, b \in Branches, sha \in Shas :
           (/\ PushEvent
            /\ Registered
            /\ ReceivedKey = o \o <<"/">> \o n
            /\ last.request.raw.value.ref = <<"refs", "/", "heads", "/">> \o b
            /\ last.request.raw.value.after = sha
            /\ last.request.signature =
                   BodySignature(last.before[ReceivedKey], last.request)) =>
               /\ last.issued =
                      <<[api    |-> "jenkins.buildWithParameters",
                         job    |-> <<"odoo-deploy-">> \o o,
                         params |-> [REPO_OWNER |-> o,
                                     REPO_NAME  |-> n,
                                     BRANCH     |-> b,
                                     USER_ID    |-> o,
                                     COMMIT_SHA |-> sha]]>>
               /\ \A u \in UserIds : last.issued[1].params.USER_ID # u
    /\ (last.op = "webhook" /\ last.from = "build" /\ last.outcome.ok) =>
           last.status = 200

\* C8 witness: after /add-repo answered success for acme/widget, a signed
\* push on refs/heads/main issued its build trigger
C8_Witness ==
    /\ PushEvent
    /\ Registered
    /\ ReceivedKey = <<"acme", "/", "widget">>
    /\ last.request.raw.value.ref = <<"refs", "/", "heads", "/", "main">>
    /\ Len(last.issued) = 1
    /\ addReqs = {}

\* The fields of an /add-repo body
AddRepoFields == {"repo_owner", "repo_name", "branch", "user_id"}

\* C9: an /add-repo request with any of the four fields absent or empty is
\* answered 400 and does nothing else: no remote call is issued, the map is
\* unchanged, and the request is not left waiting for any remote call.
C9_MissingFieldIs400 ==
    (/\ last.op = "add-repo"
     /\ last.from = "request"
     /\ \E f \in AddRepoFields : last.request[f] \in {Undefined, EmptyString}) =>
        /\ last.status = 400
        /\ last.issued = << >>
        /\ StoreUnchanged
        /\ \A r \in addReqs : r.body # last.request

\* C9 witness: only user_id is absent, and the answer is 400
C9_Witness ==
    /\ last.op = "add-repo"
    /\ last.from = "request"
    /\ last.request.user_id = Undefined
    /\ \A f \in AddRepoFields \ {"user_id"} :
           last.request[f] \notin {Undefined, EmptyString}
    /\ last.status = 400

\* C10: a push delivery is answered 200 only after its signature verified
\* (only then does the handler wait for the build trigger) and the build
\* system accepted the trigger; a failed trigger, or a body the handler
\* cannot read, is answered 500; every answer is 200, 401, 404 or 500.
C10_PushAnswers ==
    last.op = "webhook" =>
        /\ last.status \in {0, 200, 401, 404, 500}
        /\ last.status = 0 =>
               /\ PushEvent
               /\ Registered
               /\ last.request.signature =
                      BodySignature(last.before[ReceivedKey], last.request)
               /\ Len(last.issued) = 1
        /\ PushReceived => last.status # 200
        /\ (PushReceived /\ ~PushEvent) => last.status = 500
        /\ last.from = "build" =>
               /\ last.status # 0
               /\ last.status = 200 <=> last.outcome.ok
               /\ last.status = 500 <=> ~last.outcome.ok
        /\ last.from \in {"request", "build"}

\* C10 witness: the build system rejected the trigger of a verified push,
\* and the delivery was answered 500
C10_Witness ==
    /\ last.op = "webhook"
    /\ last.from = "build"
    /\ ~last.outcome.ok
    /\ last.status = 500

\* "owner/name" of a webhook that exists on GitHub
HookKey(h) == h.owner \o <<"/">> \o h.repo

\* The webhooks whose registration has resumed from createWebhook, that is,
\* has run line 63, whatever became of the registration afterwards
HooksPastCreation ==
    {h \in githubHooks :
        \A r \in addReqs : r.webhookSecret = h.secret => r.pc # "webhookCreated"}

\* C11: GET /health leaves the map as it was, and its registered_repos is
\* exactly the key set of the map, which is exactly the "owner/name" of every
\* registration that got past webhook creation, failed afterwards or not.
C11_HealthListsKeys ==
    last.op = "health" =>
        /\ last.status = 200
        /\ last.issued = << >>
        /\ StoreUnchanged
        /\ last.reply.registered_repos = DOMAIN webhookSecrets
        /\ last.reply.registered_repos = {HookKey(h) : h \in HooksPastCreation}

\* C11 witness: /health answered with acme/widget in its list
C11_Witness ==
    /\ last.op = "health"
    /\ last.reply.registered_repos = {<<"acme", "/", "widget">>}
    /\ HooksPastCreation # {}

\* The step just taken resumed an /add-repo request from a createWebhook
\* call that failed
WebhookCreationFailed ==
    /\ last.op = "add-repo"
    /\ last.from = "createWebhook"
    /\ ~last.outcome.ok

\* C12: when createWebhook fails the caller is answered with the remote's
\* status if the error carries a response and with 500 otherwise, the map is
\* as it was (a secret stored before for the repository is still there), and
\* the request ends: no job check and no build trigger is issued for it.
C12_WebhookFailureSurfaced ==
    WebhookCreationFailed =>
        /\ last.outcome.response => last.status = last.outcome.status
        /\ ~last.outcome.response => last.status = 500
        /\ last.reply.success = FALSE
        /\ StoreUnchanged
        /\ last.issued = << >>
        /\ \A r \in addReqs : r.webhookSecret # last.secret

\* C12 witness: a re-registration is refused by GitHub with 403 and the
\* secret of the first registration is still in the map
C12_Witness ==
    /\ WebhookCreationFailed
    /\ last.outcome.response
    /\ last.status = 403
    /\ RequestedKey \in DOMAIN webhookSecrets
    /\ webhookSecrets[RequestedKey] # last.secret

\* The step just taken resumed an /add-repo request from a job check that
\* threw (any failure but a 404) or from an initial build trigger that failed
FailedAfterCreation ==
    /\ last.op = "add-repo"
    /\ \/ /\ last.from = "jobCheck"
          /\ ~last.outcome.ok
          /\ ~(last.outcome.response /\ last.outcome.status = 404)
       \/ /\ last.from = "build"
          /\ ~last.outcome.ok

\* C13: when the job check or the initial build fails after the webhook was
\* created, the request is answered with an error, but the webhook is still
\* on GitHub and the map is as it was, holding the request's secret (or that
\* of a registration that has overwritten it since); no step removes a
\* webhook; and a push signed with the secret the map holds is dispatched.
C13_NoRollback ==
    /\ [](FailedAfterCreation =>
            /\ last.status \in ErrorStatuses
            /\ last.reply.success = FALSE
            /\ [owner  |-> last.request.repo_owner,
                repo   |-> last.request.repo_name,
                secret |-> last.secret] \in githubHooks
            /\ StoreUnchanged
            /\ RequestedKey \in DOMAIN webhookSecrets
            /\ \/ webhookSecrets[RequestedKey] = last.secret
               \/ \E h \in HooksPastCreation :
                      /\ HookKey(h) = RequestedKey
                      /\ h.secret = webhookSecrets[RequestedKey])
    /\ [][githubHooks \subseteq githubHooks']_vars
    /\ []((/\ PushEvent
           /\ Registered
           /\ last.request.signature =
                  BodySignature(last.before[ReceivedKey], last.request)) =>
              Len(last.issued) = 1)

\* C13 witness: the initial build failed, the answer is an error, and the
\* request's secret is in the map with its webhook on GitHub
C13_Witness ==
    /\ FailedAfterCreation
    /\ last.from = "build"
    /\ last.status = 500
    /\ RequestedKey \in DOMAIN webhookSecrets
    /\ webhookSecrets[RequestedKey] = last.secret
    /\ \E h \in githubHooks : h.secret = last.secret

\* The remote calls the service makes
ServiceApis ==
    {"github.createWebhook", "jenkins.getJob", "jenkins.buildWithParameters"}

C15_KeysOnlyGrow ==
    [][/\ \A k \in DOMAIN webhookSecrets : k \in DOMAIN webhookSecrets'
       /\ \A k \in DOMAIN webhookSecrets' :
              MapGet(webhookSecrets, k) # webhookSecrets'[k] =>
                  \E r \in addReqs :
                      /\ r.pc = "webhookCreated"
                      /\ r.body.repo_owner \o <<"/">> \o r.body.repo_name = k
                      /\ webhookSecrets'[k] = r.webhookSecret
                      /\ last'.op = "add-repo"
                      /\ last'.from = "createWebhook"
                      /\ last'.secret = r.webhookSecret
       /\ last'.op \in {"webhook", "health"} =>
              webhookSecrets' = webhookSecrets]_vars

\* C15 witness: a second registration of acme/widget has just replaced the
\* secret of the first, and the key is still there
C15_Witness ==
    /\ last.op = "add-repo"
    /\ last.from = "createWebhook"
    /\ last.outcome.ok
    /\ RequestedKey \in DOMAIN last.before
    /\ RequestedKey \in DOMAIN webhookSecrets
    /\ last.before[RequestedKey] # webhookSecrets[RequestedKey]

\* The step st received a push delivery, found a secret for its repository
\* and found the signature equal to the digest
Verified(st) ==
    /\ st.op = "webhook"
    /\ st.from = "request"
    /\ st.request.event = <<"push">>
    /\ st.request.raw.value.repository # Undefined
    /\ st.request.raw.value.ref # Undefined
    /\ st.request.raw.value.repository \in DOMAIN st.before
    /\ st.request.signature =
           BodySignature(st.before[st.request.raw.value.repository], st.request)

\* C16: every step that verifies a push delivery sends one build trigger of
\* its own, also when an equal trigger of an earlier delivery is still being
\* awaited, and no other step sends a push-originated trigger: triggers and
\* verified deliveries go up together, one for one.
C16_NoDeduplication ==
    [][/\ Verified(last') =>
              /\ Len(last'.issued) = 1
              /\ BagCardinality(hookReqs') = BagCardinality(hookReqs) + 1
              /\ CopiesIn([call |-> last'.issued[1]], hookReqs') =
                     CopiesIn([call |-> last'.issued[1]], hookReqs) + 1
       /\ BagCardinality(hookReqs') > BagCardinality(hookReqs) => Verified(last')
       /\ (\E c \in Range(last'.issued) :
               /\ c.api = "jenkins.buildWithParameters"
               /\ "COMMIT_SHA" \in DOMAIN c.params) =>
              Verified(last')]_vars

\* C16 witness: the same push was delivered again while the trigger of its
\* first delivery was still awaited, and two equal triggers are in flight
C16_Witness ==
    /\ Verified(last)
    /\ Len(last.issued) = 1
    /\ CopiesIn([call |-> last.issued[1]], hookReqs) = 2

\* C17: every secret in the map under "owner/name" is the secret of a webhook
\* that exists on GitHub for that repository, and an entry is written only
\* with the secret of a webhook that existed before the writing step.
C17_StoredSecretsHaveWebhooks ==
    /\ [](\A k \in DOMAIN webhookSecrets :
              \E h \in githubHooks :
                  HookKey(h) = k /\ h.secret = webhookSecrets[k])
    /\ [][\A k \in DOMAIN webhookSecrets' :
              MapGet(webhookSecrets, k) # webhookSecrets'[k] =>
                  \E h \in githubHooks :
                      HookKey(h) = k /\ h.secret = webhookSecrets'[k]]_vars

\* C17 witness: two webhooks were created for acme/widget and the map holds
\* the secret of one of them
C17_Witness ==
    /\ Cardinality(githubHooks) = 2
    /\ <<"acme", "/", "widget">> \in DOMAIN webhookSecrets
    /\ \E h \in githubHooks :
           h.secret = webhookSecrets[<<"acme", "/", "widget">>]

\* The delivery just received is a push for the repository of the
\* registration r, signed with r's secret, and r's webhook exists on GitHub
\* while r has not yet resumed from createWebhook
RacedPush(r) ==
    /\ PushEvent
    /\ r.pc = "webhookCreated"
    /\ r.body.repo_owner \o <<"/">> \o r.body.repo_name = ReceivedKey
    /\ \E h \in githubHooks : HookKey(h) = ReceivedKey /\ h.secret = r.webhookSecret
    /\ last.request.signature \in
           {BodySignature(r.webhookSecret, last.request),
            RawSignature(r.webhookSecret, last.request)}

\* C18: a push signed with the secret of a webhook GitHub has created, and
\* delivered before the registrar has resumed and stored that secret, is
\* rejected and triggers nothing: 404 when the map has no entry for the
\* repository, 401 when it still holds the secret of an earlier registration.
C18_PushBeforeStoreRejected ==
    \A r \in addReqs :
        RacedPush(r) =>
            /\ last.issued = << >>
            /\ ReceivedKey \notin DOMAIN last.before => last.status = 404
            /\ ReceivedKey \in DOMAIN last.before => last.status = 401

\* C18 witness: during a re-registration, a push signed with the new
\* webhook's secret is answered 401 because the map still holds the old one
C18_Witness ==
    /\ \E r \in addReqs : RacedPush(r)
    /\ ReceivedKey \in DOMAIN last.before
    /\ last.status = 401

\* C19: when registrations of one repository overlap, each creates its
\* webhook and each, on resuming from createWebhook, replaces what the map
\* holds with its own secret, so the map holds the secret of the one that
\* resumed last, whichever arrived first; a push signed with the secret of
\* another webhook of the repository is answered 401.
C19_LastStoreWins ==
    /\ (last.op = "add-repo" /\ last.from = "createWebhook" /\ last.outcome.ok) =>
           /\ RequestedKey \in DOMAIN webhookSecrets
           /\ webhookSecrets[RequestedKey] = last.secret
           /\ \E h \in githubHooks :
                  HookKey(h) = RequestedKey /\ h.secret = last.secret
           /\ RequestedKey \in DOMAIN last.before =>
                  \E h \in githubHooks :
                      /\ HookKey(h) = RequestedKey
                      /\ h.secret = last.before[RequestedKey]
                      /\ h.secret # last.secret
    /\ (PushEvent /\ Registered) =>
           \A h \in HooksPastCreation :
               (/\ HookKey(h) = ReceivedKey
                /\ h.secret # last.before[ReceivedKey]
                /\ last.request.signature \in
                       {BodySignature(h.secret, last.request),
                        RawSignature(h.secret, last.request)}) =>
                   last.status = 401 /\ last.issued = << >>

\* C19 witness: the registration that arrived first resumed from
\* createWebhook last; the map held the secret of the second and now holds
\* that of the first
C19_Witness ==
    /\ last.op = "add-repo"
    /\ last.from = "createWebhook"
    /\ last.outcome.ok
    /\ last.secret = HexSecret(1)
    /\ RequestedKey \in DOMAIN last.before
    /\ last.before[RequestedKey] = HexSecret(2)
    /\ webhookSecrets[RequestedKey] = HexSecret(1)

\* The /add-repo request that drew the secret s is suspended at an await
AddRepoPending(s) == \E r \in addReqs : r.webhookSecret = s

\* The step just taken answered the /add-repo request that drew the secret s
AddRepoAnswered(s) ==
    last.op = "add-repo" /\ last.secret = s /\ last.status # 0

\* Each request is answered once: a step that resumes a request resumes one
\* that is suspended; a request leaves the suspended ones exactly in the step
\* that answers it, and stays suspended in a step that does not
OneResponse ==
    /\ last'.op = "add-repo" =>
           /\ last'.from = "request" => ~AddRepoPending(last'.secret)
           /\ last'.from # "request" => AddRepoPending(last'.secret)
           /\ last'.status # 0 <=>
                  \A r \in addReqs' : r.webhookSecret # last'.secret
    /\ \A r \in addReqs :
           (\A q \in addReqs' : q.webhookSecret # r.webhookSecret) =>
               /\ last'.op = "add-repo"
               /\ last'.secret = r.webhookSecret
               /\ last'.status # 0
    /\ (last'.op = "webhook" /\ last'.from = "request") =>
           IF last'.status = 0
           THEN BagCardinality(hookReqs') = BagCardinality(hookReqs) + 1
           ELSE hookReqs' = hookReqs
    /\ BagCardinality(hookReqs') < BagCardinality(hookReqs) <=>
           (last'.op = "webhook" /\ last'.from = "build")
    /\ (last'.op = "webhook" /\ last'.from = "build") =>
           /\ last'.status # 0
           /\ BagCardinality(hookReqs') = BagCardinality(hookReqs) - 1

\* An /add-repo step issues at most one call: createWebhook on receipt, the
\* job check on resuming from a createWebhook that resolved, the build
\* trigger on resuming from the job check, and nothing on resuming from the
\* build trigger
CallsInOrder ==
    last.op = "add-repo" =>
        /\ Len(last.issued) <= 1
        /\ \A c \in Range(last.issued) :
               /\ c.api = "github.createWebhook" => last.from = "request"
               /\ c.api = "jenkins.getJob" =>
                      last.from = "createWebhook" /\ last.outcome.ok
               /\ c.api = "jenkins.buildWithParameters" => last.from = "jobCheck"
        /\ last.from = "build" => last.issued = << >>

\* C20 as stated: every call of /add-repo is issued only after the call
\* before it succeeded, so the build trigger only after a job check that
\* succeeded.
C20_EachCallAfterSuccess ==
    /\ CallsInOrder
    /\ last.op = "add-repo" =>
           \A c \in Range(last.issued) :
               c.api = "jenkins.buildWithParameters" => last.outcome.ok

\* C20, amended: if every remote call eventually returns or fails, every
\* /add-repo and /webhook/github request is eventually answered, and each is
\* answered exactly once; /add-repo issues createWebhook, the job check and
\* the build trigger in that order, each only after the one before it
\* succeeded, except that the build trigger is also issued after a job check
\* that was answered 404.
C20_OneResponseCallsInOrder ==
    /\ \A s \in Secrets : AddRepoPending(s) ~> AddRepoAnswered(s)
    /\ (BagCardinality(hookReqs) > 0) ~>
           (last.op = "webhook" /\ last.from = "build" /\ last.status # 0)
    /\ [][OneResponse]_vars
    /\ [](/\ CallsInOrder
          /\ last.op = "add-repo" =>
                 \A c \in Range(last.issued) :
                     c.api = "jenkins.buildWithParameters" =>
                         \/ last.outcome.ok
                         \/ last.outcome.response /\ last.outcome.status = 404)

\* C20 witness: a registration went through all three calls in order and
\* was answered, leaving no request suspended
C20_Witness ==
    /\ AddRepoAnswered(HexSecret(1))
    /\ last.from = "build"
    /\ last.status = 200
    /\ ~AddRepoPending(HexSecret(1))
    /\ \E h \in githubHooks : h.secret = HexSecret(1)

====
